---- MODULE Spec2Model ----
(***************************************************************************)
(* The album acquisition pipeline of noiseport-server:                     *)
(*   app/api/downloads.py                  download_album, search_album,   *)
(*                                         background_download_album       *)
(*   app/services/slskd_service.py         SlskdService                    *)
(*   app/services/download_request_service.py  DownloadRequestService      *)
(* Strings are sequences of one-character strings, so that lower(),        *)
(* substring tests, endswith() and os.path.dirname() are computed.         *)
(***************************************************************************)
EXTENDS Integers, Sequences, FiniteSets, TLC

(***************************************************************************)
(* Bounds of the model.                                                    *)
(***************************************************************************)
\* number of POST /download requests (one orchestration each)
MaxTasks == 1
\* seconds one searches.state() call takes before it returns or raises
PollLatency == 14
\* number of peers in a list handed to find_best_album_match on its own
MaxPeers == 2
\* number of rows INSERTed by the store functions called on their own
MaxRows == 2
\* number of rows in the tables the listing functions are called on
MaxList == 3
\* number of POST /download requests whose body is looked at
MaxPosts == 2

(***************************************************************************)
(* Python values.                                                          *)
(***************************************************************************)
\* None of an Optional[int] (sizes, bit rates and codes are validated >= 0)
NoneInt == -1
\* None of an Optional[str]
NoneStr == <<"<None>">>
\* the empty str
EmptyStr == <<>>

UpperChars == <<"A","B","C","D","E","F","G","H","I","J","K","L","M",
                "N","O","P","Q","R","S","T","U","V","W","X","Y","Z">>
LowerChars == <<"a","b","c","d","e","f","g","h","i","j","k","l","m",
                "n","o","p","q","r","s","t","u","v","w","x","y","z">>

\* str.lower() on one character
LowerChar(c) ==
    IF \E i \in 1..Len(UpperChars) : UpperChars[i] = c
    THEN LowerChars[CHOOSE i \in 1..Len(UpperChars) : UpperChars[i] = c]
    ELSE c

\* str.lower()
Lower(s) == [i \in 1..Len(s) |-> LowerChar(s[i])]

\* Python's `sub in s` on strings
Contains(sub, s) ==
    \E i \in 0..(Len(s) - Len(sub)) : SubSeq(s, i + 1, i + Len(sub)) = sub

\* str.endswith
EndsWith(s, suf) ==
    /\ Len(suf) <= Len(s)
    /\ SubSeq(s, Len(s) - Len(suf) + 1, Len(s)) = suf

\* str.rstrip("/")
RECURSIVE RStripSlash(_)
RStripSlash(s) ==
    IF s # <<>> /\ s[Len(s)] = "/" THEN RStripSlash(SubSeq(s, 1, Len(s) - 1)) ELSE s

\* posixpath.dirname: the head up to the last "/", trailing slashes stripped
\* unless the head is made of slashes only
Dirname(p) ==
    LET slashes == {i \in 1..Len(p) : p[i] = "/"}
        i       == IF slashes = {} THEN 0
                   ELSE CHOOSE k \in slashes : \A j \in slashes : j <= k
        head    == SubSeq(p, 1, i)
    IN  IF head # <<>> /\ (\E k \in 1..Len(head) : head[k] # "/")
        THEN RStripSlash(head)
        ELSE head

\* sum of a sequence of integers
RECURSIVE SumSeq(_)
SumSeq(s) == IF s = <<>> THEN 0 ELSE Head(s) + SumSeq(Tail(s))

\* `x or 0` on an Optional[int]
OrZero(x) == IF x = NoneInt THEN 0 ELSE x

(***************************************************************************)
(* Schemas (app/models/schemas.py) and the candidate selector.             *)
(***************************************************************************)
\* FileInfo(**kw): pydantic fills a field from the key named by its alias when
\* it has one (bit_rate <- "bitRate"; the model sets no populate_by_name), a
\* key that names no field or alias is dropped, a missing key gives None.
\* is_locked, is_variable_bit_rate and length are never read and are left out.
FileInfo(kw) ==
    [code      |-> IF "code" \in DOMAIN kw THEN kw.code ELSE NoneInt,
     extension |-> IF "extension" \in DOMAIN kw THEN kw.extension ELSE NoneStr,
     filename  |-> kw.filename,
     size      |-> IF "size" \in DOMAIN kw THEN kw.size ELSE NoneInt,
     bit_rate  |-> IF "bitRate" \in DOMAIN kw THEN kw.bitRate ELSE NoneInt]

\* search_album, lines 92-104: one file dict of a response to a FileInfo
ToFileInfo(file) ==
    FileInfo([code      |-> file.code,
              extension |-> file.extension,
              filename  |-> file.filename,
              size      |-> file.size,
              bit_rate  |-> file.bitRate])

\* search_album, lines 87-108: the responses to the users of the SearchResult
ToUsers(resps) ==
    [i \in 1..Len(resps) |->
        [username |-> resps[i].username,
         files    |-> [j \in 1..Len(resps[i].files) |-> ToFileInfo(resps[i].files[j])]]]

\* the keys of the dict built by group_files_by_album, in insertion order
RECURSIVE AlbumKeys(_)
AlbumKeys(files) ==
    IF files = <<>> THEN <<>>
    ELSE LET init == AlbumKeys(SubSeq(files, 1, Len(files) - 1))
             key  == Dirname(files[Len(files)].filename)
         IN  IF \E i \in 1..Len(init) : init[i] = key THEN init ELSE Append(init, key)

\* group_files_by_album: the dict as the sequence of its (key, files) items
group_files_by_album(files) ==
    LET keys == AlbumKeys(files)
    IN  [i \in 1..Len(keys) |->
            [key   |-> keys[i],
             files |-> SelectSeq(files, LAMBDA f : Dirname(f.filename) = keys[i])]]

\* the files with extension .mp3 and bit rate 320
Mp3_320(files) ==
    SelectSeq(files, LAMBDA f :
        EndsWith(Lower(f.filename), <<".", "m", "p", "3">>) /\ f.bit_rate = 320)

\* the files with extension .flac
Flac(files) ==
    SelectSeq(files, LAMBDA f : EndsWith(Lower(f.filename), <<".", "f", "l", "a", "c">>))

\* filter_album_files_priority returning both tiers together
filter_album_files_priority_BothTiers(files) ==
    IF Mp3_320(files) \o Flac(files) # <<>> THEN Mp3_320(files) \o Flac(files)
    ELSE <<>>

\* filter_album_files_priority taking any .mp3 file, whatever its bit rate
filter_album_files_priority_AnyMp3(files) ==
    LET mp3 == SelectSeq(files, LAMBDA f : EndsWith(Lower(f.filename), <<".", "m", "p", "3">>))
    IN  IF mp3 # <<>> THEN mp3
        ELSE IF Flac(files) # <<>> THEN Flac(files)
        ELSE <<>>

\* filter_album_files_priority; None is <<>>, the caller tests truthiness only
filter_album_files_priority(files) ==
    IF Mp3_320(files) # <<>> THEN Mp3_320(files)
    ELSE IF Flac(files) # <<>> THEN Flac(files)
    ELSE <<>>

\* sum(f.size or 0 for f in files)
TotalSize(files) == SumSeq([i \in 1..Len(files) |-> OrZero(files[i].size)])

\* lines 231-238: the first key that contains artist and album, or None
MatchingAlbumKey(albums, artist, album) ==
    LET hits == {i \in 1..Len(albums) :
                    /\ Contains(Lower(artist), Lower(albums[i].key))
                    /\ Contains(Lower(album), Lower(albums[i].key))}
    IN  IF hits = {} THEN NoneStr
        ELSE albums[CHOOSE i \in hits : \A j \in hits : i <= j].key

\* LargestAlbum by the number of files, as the comment of line 240 words it
LargestAlbum_MostFiles(albums) ==
    IF albums = <<>> THEN <<>>
    ELSE LET best == CHOOSE i \in 1..Len(albums) :
                        /\ \A j \in 1..Len(albums) :
                              Len(albums[j].files) <= Len(albums[i].files)
                        /\ \A j \in 1..(i - 1) :
                              Len(albums[j].files) < Len(albums[i].files)
         IN  albums[best].files

\* lines 244-248: max(albums.values(), key=summed size, default=None), the
\* first maximal value in iteration order; None is <<>>
LargestAlbum(albums) ==
    IF albums = <<>> THEN <<>>
    ELSE LET best == CHOOSE i \in 1..Len(albums) :
                        /\ \A j \in 1..Len(albums) :
                              TotalSize(albums[j].files) <= TotalSize(albums[i].files)
                        /\ \A j \in 1..(i - 1) :
                              TotalSize(albums[j].files) < TotalSize(albums[i].files)
         IN  albums[best].files

\* AlbumFiles going on to the other groups when the chosen one has no file
\* of either tier
AlbumFiles_TryOtherGroups(files, artist, album) ==
    LET albums == group_files_by_album(files)
        mkey   == MatchingAlbumKey(albums, artist, album)
        chosen == IF mkey # NoneStr /\ mkey # EmptyStr
                  THEN albums[CHOOSE i \in 1..Len(albums) : albums[i].key = mkey].files
                  ELSE LargestAlbum(albums)
        good   == {i \in 1..Len(albums) :
                      filter_album_files_priority(albums[i].files) # <<>>}
    IN  IF filter_album_files_priority(chosen) # <<>> \/ good = {} THEN chosen
        ELSE albums[CHOOSE i \in good : \A j \in good : i <= j].files

\* lines 228-248: the group of one user's files that is handed to the filter
AlbumFiles(files, artist, album) ==
    LET albums == group_files_by_album(files)
        mkey   == MatchingAlbumKey(albums, artist, album)
    IN  \* `if matching_album_key:` is false for None and for ""
        IF mkey # NoneStr /\ mkey # EmptyStr
        THEN albums[CHOOSE i \in 1..Len(albums) : albums[i].key = mkey].files
        ELSE LargestAlbum(albums)

\* find_best_album_match returning None
NoMatch == [username |-> NoneStr, files |-> <<>>]

\* find_best_album_match returning None when the first peer yields nothing
find_best_album_match_FirstPeerOnly(users, artist, album) ==
    IF users = <<>> THEN NoMatch
    ELSE LET user_resp == Head(users)
             filtered  == IF user_resp.files = <<>> THEN <<>>
                          ELSE filter_album_files_priority(
                                   AlbumFiles(user_resp.files, artist, album))
         IN  IF filtered # <<>>
             THEN [username |-> user_resp.username, files |-> filtered]
             ELSE NoMatch

\* find_best_album_match
RECURSIVE find_best_album_match(_, _, _)
find_best_album_match(users, artist, album) ==
    IF users = <<>> THEN NoMatch
    ELSE LET user_resp == Head(users)
             filtered  == IF user_resp.files = <<>> THEN <<>>
                          ELSE filter_album_files_priority(
                                   AlbumFiles(user_resp.files, artist, album))
         IN  IF filtered # <<>>
             THEN [username |-> user_resp.username, files |-> filtered]
             ELSE find_best_album_match(Tail(users), artist, album)

(***************************************************************************)
(* The search/transfer backend (slskd) as the program sees it: what a      *)
(* search may answer, and how a call may end.                              *)
(***************************************************************************)
PinkFloyd == <<"P","i","n","k"," ","F","l","o","y","d">>
TheWall   == <<"T","h","e"," ","W","a","l","l">>
Alice     == <<"a","l","i","c","e">>
Bob       == <<"b","o","b">>
Carol     == <<"c","a","r","o","l">>
Dave      == <<"d","a","v","e">>
TrackNames == <<"a","b","c","d","e","f","g","h","i","j">>

\* one file dict of a search response
RawFile(dir, name, ext, size, bitRate) ==
    [filename  |-> dir \o <<"/">> \o name \o <<".">> \o ext,
     extension |-> ext,
     size      |-> size,
     bitRate   |-> bitRate,
     code      |-> 1]

\* one peer with ten 320 kbps mp3 files under "Pink Floyd/The Wall"
ScenarioA ==
    << [username |-> Alice,
        files    |-> [i \in 1..10 |->
                        RawFile(PinkFloyd \o <<"/">> \o TheWall, <<TrackNames[i]>>,
                                <<"m","p","3">>, 9, 320)]] >>

\* one peer, no directory names the album, 128 kbps mp3 files only
ScenarioB ==
    << [username |-> Bob,
        files    |-> << RawFile(<<"M","i","s","c">>, <<"x">>, <<"m","p","3">>, 4, 128),
                        RawFile(<<"M","i","s","c">>, <<"y">>, <<"m","p","3">>, 5, 128),
                        RawFile(<<"O","l","d">>, <<"z">>, <<"m","p","3">>, 3, 128) >>] >>

\* a peer without files, then a peer with two flac files (one without a size)
\* under "pink floyd/the wall" and a larger directory of 128 kbps mp3 files
ScenarioFlac ==
    << [username |-> Carol, files |-> <<>>],
       [username |-> Dave,
        files    |-> << RawFile(<<"R","i","p","s">>, <<"x">>, <<"m","p","3">>, 50, 128),
                        RawFile(Lower(PinkFloyd) \o <<"/">> \o Lower(TheWall), <<"a">>,
                                <<"f","l","a","c">>, 30, NoneInt),
                        RawFile(Lower(PinkFloyd) \o <<"/">> \o Lower(TheWall), <<"b">>,
                                <<"F","L","A","C">>, NoneInt, NoneInt) >>] >>

\* a FileInfo built as the tests build it, with the API's key bitRate
Info(dir, name, ext, size, bitRate) == FileInfo(RawFile(dir, name, ext, size, bitRate))

\* a FileInfo whose filename has no directory part
BareInfo(name, ext, size, bitRate) ==
    [Info(<<>>, name, ext, size, bitRate) EXCEPT !.filename = name \o <<".">> \o ext]

Erin  == <<"e","r","i","n">>
Frank == <<"f","r","a","n","k">>
Gina  == <<"g","i","n","a">>
Mp3Ext  == <<"m","p","3">>
FlacExt == <<"f","l","a","c">>
WallDir == PinkFloyd \o <<"/">> \o TheWall

\* the peers a list handed to find_best_album_match is made of
SelectorPeers ==
    { \* no files
      [username |-> Carol, files |-> <<>>],
      \* the album directory with both tiers and a 128 kbps file
      [username |-> Alice,
       files    |-> << Info(WallDir, <<"a">>, Mp3Ext, 9, 320),
                       Info(WallDir, <<"b">>, FlacExt, 30, NoneInt),
                       Info(WallDir, <<"c">>, <<"M","P","3">>, 9, 320),
                       Info(WallDir, <<"d">>, Mp3Ext, 4, 128) >>],
      \* a larger directory first, then the album directory in lower case
      [username |-> Dave,
       files    |-> << Info(<<"R","i","p","s">>, <<"x">>, Mp3Ext, 50, 128),
                       Info(Lower(WallDir), <<"a">>, FlacExt, 30, NoneInt),
                       Info(Lower(WallDir), <<"b">>, <<"F","L","A","C">>, NoneInt, NoneInt) >>],
      \* the album directory with 128 kbps files only, flac files elsewhere
      [username |-> Bob,
       files    |-> << Info(WallDir, <<"x">>, Mp3Ext, 4, 128),
                       Info(<<"O","l","d">>, <<"y">>, FlacExt, 60, NoneInt) >>],
      \* the largest directory has one 128 kbps file, a smaller one two flac files
      [username |-> Erin,
       files    |-> << Info(<<"G","o","o","d">>, <<"y">>, FlacExt, 5, NoneInt),
                       Info(<<"J","u","n","k">>, <<"x">>, Mp3Ext, 90, 128),
                       Info(<<"G","o","o","d">>, <<"z">>, FlacExt, 5, NoneInt) >>],
      \* three directories, two of them of the same largest size, a file
      \* without size and a file without directory
      [username |-> Frank,
       files    |-> << Info(<<"X">>, <<"a">>, FlacExt, 5, NoneInt),
                       Info(<<"Y">>, <<"b">>, Mp3Ext, 9, 320),
                       Info(<<"Z">>, <<"c">>, FlacExt, 9, NoneInt),
                       Info(<<"Y">>, <<"e">>, Mp3Ext, NoneInt, 320),
                       BareInfo(<<"f">>, FlacExt, 2, NoneInt) >>],
      \* two directories that name the album, their files interleaved
      [username |-> Gina,
       files    |-> << Info(TheWall \o <<" ","-"," ">> \o PinkFloyd, <<"a">>, FlacExt, 3, NoneInt),
                       Info(WallDir, <<"b">>, Mp3Ext, 9, 320),
                       Info(TheWall \o <<" ","-"," ">> \o PinkFloyd, <<"c">>, FlacExt, 3, NoneInt) >>] }

\* lists of at most MaxPeers peers
PeerLists == UNION { [1..n -> SelectorPeers] : n \in 0..MaxPeers }

\* the (artist, album) a match is looked for: as the directories spell it, in
\* another case, and an album no directory names
Queries ==
    { [artist |-> PinkFloyd, album |-> TheWall],
      [artist |-> Lower(PinkFloyd), album |-> <<"W","A","L","L">>],
      [artist |-> <<"A","B","B","A">>, album |-> <<"G","o","l","d">>] }

\* the response lists a state poll may carry
ResponseLists == { <<>>, ScenarioA, ScenarioB, ScenarioFlac }

\* what searches.state() may return
SearchStates == [status : {"InProgress", "Completed"}, responses : ResponseLists]

\* exceptions a call of the client library may raise: the backend is not
\* reachable (ConnectionError), or it answers with an error (HTTPError)
ClientErrors == {"ConnectionError", "HTTPError"}

ConstructOutcomes == {"ok"} \cup ClientErrors
SubmitOutcomes    == {"id", "noid"} \cup ClientErrors
PollOutcomes      ==
    [raises : {"none"}, state : SearchStates]
    \cup [raises : ClientErrors, state : {[status |-> "InProgress", responses |-> <<>>]}]
StopOutcomes      == {"ok"} \cup ClientErrors
EnqueueOutcomes   == {"accepted", "rejected"} \cup ClientErrors
MetadataOutcomes  == {"written", "OSError"}

(***************************************************************************)
(* Program constants.                                                      *)
(***************************************************************************)
\* search_album(..., timeout: int = 30)
timeout == 30
\* time.sleep(1) between two polls
SleepSeconds == 1
\* resp.get("id") that is None (falsy)
NoId == 0

TaskIds   == 1..MaxTasks
\* the caller of GET /search/{artist}/{album}
PreviewId == 0
\* the task ids of runs that overlap: one request more than in Spec
RunIds    == 1..(MaxTasks + 1)
Procs     == {PreviewId} \cup RunIds

Statuses == {"pending", "no_results", "no_match", "downloading", "enqueued",
             "failed", "connection_error", "timeout", "error", "completed"}

(***************************************************************************)
(* The request store (DownloadRequestService over table download_requests) *)
(***************************************************************************)
\* NewRow with the values of username and vpn_ip bound to each other's column
NewRow_SwappedColumns(id, task_id, artist, album, username, vpn_ip, now) ==
    [id              |-> id,
     task_id         |-> task_id,
     artist          |-> artist,
     album           |-> album,
     username        |-> vpn_ip,
     vpn_ip          |-> username,
     status          |-> "pending",
     timestamp       |-> now,
     slskd_username  |-> NoneStr,
     file_count      |-> 0,
     completed_files |-> 0,
     total_size      |-> 0,
     album_directory |-> NoneStr,
     completed_at    |-> NoneInt]

\* the row INSERTed by create_request; the other columns take their DEFAULT
NewRow(id, task_id, artist, album, username, vpn_ip, now) ==
    [id              |-> id,
     task_id         |-> task_id,
     artist          |-> artist,
     album           |-> album,
     username        |-> username,
     vpn_ip          |-> vpn_ip,
     status          |-> "pending",
     timestamp       |-> now,
     slskd_username  |-> NoneStr,
     file_count      |-> 0,
     completed_files |-> 0,
     total_size      |-> 0,
     album_directory |-> NoneStr,
     completed_at    |-> NoneInt]

\* task_id TEXT NOT NULL UNIQUE
HasTask(table, task_id) == \E i \in 1..Len(table) : table[i].task_id = task_id

\* cursor.rowcount of an UPDATE ... WHERE task_id = ?
RowCount(table, task_id) ==
    Cardinality({i \in 1..Len(table) : table[i].task_id = task_id})

\* the INSERT on a table without the UNIQUE constraint of task_id
UniqueViolation_NoConstraint(table, task_id) == FALSE

\* the INSERT raises sqlite3.IntegrityError: task_id TEXT NOT NULL UNIQUE
UniqueViolation(table, task_id) == HasTask(table, task_id)

\* DownloadRequest.from_row: a NULL count reads as 0; the other columns are
\* taken as they are (isoformat and fromisoformat are inverse on timestamps)
from_row(row) ==
    [row EXCEPT !.file_count      = OrZero(@),
                !.completed_files = OrZero(@),
                !.total_size      = OrZero(@)]

\* a function that returns None instead of a DownloadRequest
NoRequest == [id |-> NoneInt]

\* get_request_by_task_id, for a task_id that has a row
RowOf(table, task_id) ==
    table[CHOOSE i \in 1..Len(table) : table[i].task_id = task_id]

\* create_request: the table after the INSERT (id is AUTOINCREMENT)
create_request(table, task_id, artist, album, username, vpn_ip, now) ==
    Append(table, NewRow(Len(table) + 1, task_id, artist, album, username, vpn_ip, now))

\* update_request_status whose UPDATE has no WHERE clause
update_request_status_AllRows(table, task_id, status, slskd_username, file_count, total_size) ==
    [i \in 1..Len(table) |->
        [table[i] EXCEPT
            !.status         = status,
            !.slskd_username = IF slskd_username # NoneStr THEN slskd_username ELSE @,
            !.file_count     = IF file_count # NoneInt THEN file_count ELSE @,
            !.total_size     = IF total_size # NoneInt THEN total_size ELSE @]]

\* update_request_status counting its calls in file_count
update_request_status_CountsCalls(table, task_id, status, slskd_username, file_count, total_size) ==
    [i \in 1..Len(table) |->
        IF table[i].task_id # task_id THEN table[i]
        ELSE [table[i] EXCEPT
                !.status         = status,
                !.slskd_username = IF slskd_username # NoneStr THEN slskd_username ELSE @,
                !.file_count     = IF file_count # NoneInt THEN file_count ELSE @ + 1,
                !.total_size     = IF total_size # NoneInt THEN total_size ELSE @]]

\* update_request_status binding every optional argument, None included
update_request_status_SetsNone(table, task_id, status, slskd_username, file_count, total_size) ==
    [i \in 1..Len(table) |->
        IF table[i].task_id # task_id THEN table[i]
        ELSE [table[i] EXCEPT
                !.status         = status,
                !.slskd_username = slskd_username,
                !.file_count     = file_count,
                !.total_size     = total_size]]

\* update_request_status: the table after the UPDATE; an optional argument
\* that is None is left out of the SET clause
update_request_status(table, task_id, status, slskd_username, file_count, total_size) ==
    [i \in 1..Len(table) |->
        IF table[i].task_id # task_id THEN table[i]
        ELSE [table[i] EXCEPT
                !.status         = status,
                !.slskd_username = IF slskd_username # NoneStr THEN slskd_username ELSE @,
                !.file_count     = IF file_count # NoneInt THEN file_count ELSE @,
                !.total_size     = IF total_size # NoneInt THEN total_size ELSE @]]

\* complete_request writing the number of completed files to file_count too
complete_request_CountsAsFiles(table, task_id, album_directory, completed_files, now) ==
    [i \in 1..Len(table) |->
        IF table[i].task_id # task_id THEN table[i]
        ELSE [table[i] EXCEPT
                !.status          = "completed",
                !.file_count      = completed_files,
                !.completed_files = completed_files,
                !.album_directory = album_directory,
                !.completed_at    = now]]

\* complete_request: the table after the UPDATE
complete_request(table, task_id, album_directory, completed_files, now) ==
    [i \in 1..Len(table) |->
        IF table[i].task_id # task_id THEN table[i]
        ELSE [table[i] EXCEPT
                !.status          = "completed",
                !.completed_files = completed_files,
                !.album_directory = album_directory,
                !.completed_at    = now]]

\* ORDER BY timestamp DESC: the rows by falling timestamp (the order of
\* rows with one timestamp is not fixed by SQL; here the earlier row first)
RECURSIVE OrderByTimestampDesc(_)
OrderByTimestampDesc(rows) ==
    IF rows = <<>> THEN <<>>
    ELSE LET top == CHOOSE i \in 1..Len(rows) :
                        /\ \A j \in 1..Len(rows) : rows[j].timestamp <= rows[i].timestamp
                        /\ \A j \in 1..(i - 1) : rows[j].timestamp < rows[i].timestamp
         IN  <<rows[top]>>
             \o OrderByTimestampDesc(SubSeq(rows, 1, top - 1) \o SubSeq(rows, top + 1, Len(rows)))

\* LIMIT ? OFFSET ? of SQLite: a negative OFFSET is 0, a negative LIMIT is no
\* upper bound
LimitOffset(rows, limit, offset) ==
    LET skip == IF offset < 0 THEN 0 ELSE offset
        rest == SubSeq(rows, skip + 1, Len(rows))
    IN  IF limit < 0 \/ limit >= Len(rest) THEN rest ELSE SubSeq(rest, 1, limit)

\* the WHERE clause left out
Where_NoFilter(rows, column, value) == rows

\* WHERE column = ? on a TEXT column (BINARY collation: exact equality)
Where(rows, column, value) == SelectSeq(rows, LAMBDA r : r[column] = value)

\* [DownloadRequest.from_row(tuple(row)) for row in rows]
FromRows(rows) == [i \in 1..Len(rows) |-> from_row(rows[i])]

\* get_all_requests
get_all_requests(table, limit, offset) ==
    FromRows(LimitOffset(OrderByTimestampDesc(table), limit, offset))

\* get_requests_by_user
get_requests_by_user(table, username, limit, offset) ==
    FromRows(LimitOffset(OrderByTimestampDesc(Where(table, "username", username)),
                         limit, offset))

\* get_requests_by_vpn_ip
get_requests_by_vpn_ip(table, vpn_ip, limit, offset) ==
    FromRows(LimitOffset(OrderByTimestampDesc(Where(table, "vpn_ip", vpn_ip)),
                         limit, offset))

\* get_request_count: SELECT COUNT(*)
get_request_count(table) == Len(table)

\* get_user_request_count: SELECT COUNT(*) ... WHERE username = ?
get_user_request_count(table, username) == Len(Where(table, "username", username))

\* get_vpn_ip_request_count: SELECT COUNT(*) ... WHERE vpn_ip = ?
get_vpn_ip_request_count(table, vpn_ip) == Len(Where(table, "vpn_ip", vpn_ip))

\* SetStatus stamping the time of the write into completed_at
SetStatus_StampsCompletion(table, task_id, status) ==
    [i \in 1..Len(table) |->
        IF table[i].task_id # task_id THEN table[i]
        ELSE [table[i] EXCEPT !.status = status, !.completed_at = Len(table) + 1]]

\* SetStatus handing 0 for the two counts instead of leaving them out
SetStatus_ResetsCounts(table, task_id, status) ==
    update_request_status(table, task_id, status, NoneStr, 0, 0)

\* update_request_status(task_id, status) as the orchestrator calls it
SetStatus(table, task_id, status) ==
    update_request_status(table, task_id, status, NoneStr, NoneInt, NoneInt)

(***************************************************************************)
(* SlskdService: client, search_album, _wait_for_search_completion,        *)
(* enqueue_download, as functions of the backend's answers.                *)
(***************************************************************************)
\* the client property: the cached client, or a new one; a failure to build
\* it raises SlskdConnectionError and caches nothing
GetClient(cached, construct) ==
    IF cached # "None" THEN [client |-> cached, exc |-> "none"]
    ELSE IF construct = "ok" THEN [client |-> "connected", exc |-> "none"]
    ELSE [client |-> "None", exc |-> "SlskdConnectionError"]

\* search_album, lines 117-121: what leaves search_album for an exception
\* raised inside its try block
SearchAlbumRaise(e) ==
    IF e \in {"SlskdConnectionError", "DownloadError", "SearchTimeoutError"}
    THEN e
    ELSE "DownloadError"

\* SearchSubmit without the check of lines 80-81: a missing id goes on to the poll
SearchSubmit_NoIdCheck(cached, construct, submit, id) ==
    LET c == GetClient(cached, construct)
    IN  IF c.exc # "none"
        THEN [client |-> c.client, exc |-> SearchAlbumRaise(c.exc), search_id |-> NoId]
        ELSE IF submit \in ClientErrors
        THEN [client |-> c.client, exc |-> SearchAlbumRaise(submit), search_id |-> NoId]
        ELSE [client |-> c.client, exc |-> "none",
              search_id |-> IF submit = "noid" THEN NoId ELSE id]

\* search_album, lines 69-81: client, search_text, the check of the id;
\* id is the identifier the backend gives the search when it accepts it
SearchSubmit(cached, construct, submit, id) ==
    LET c == GetClient(cached, construct)
    IN  IF c.exc # "none"
        THEN [client |-> c.client, exc |-> SearchAlbumRaise(c.exc), search_id |-> NoId]
        ELSE IF submit \in ClientErrors
        THEN [client |-> c.client, exc |-> SearchAlbumRaise(submit), search_id |-> NoId]
        ELSE IF submit = "noid"
        THEN [client |-> c.client, exc |-> SearchAlbumRaise("DownloadError"),
              search_id |-> NoId]
        ELSE [client |-> c.client, exc |-> "none", search_id |-> id]

\* _wait_for_search_completion, lines 132-147: one pass of the loop body.
\* A poll that raises keeps the responses and sleeps; a state that is not
\* Completed sleeps; Completed breaks, and the clock is not consulted again.
PollStep(resps, el, outcome) ==
    IF outcome.raises # "none"
    THEN [responses |-> resps, elapsed |-> el + PollLatency + SleepSeconds,
          completed |-> FALSE]
    ELSE IF outcome.state.status = "Completed"
    THEN [responses |-> outcome.state.responses, elapsed |-> el, completed |-> TRUE]
    ELSE [responses |-> outcome.state.responses,
          elapsed |-> el + PollLatency + SleepSeconds, completed |-> FALSE]

\* WaitReturn with lines 155-156 raising SearchTimeoutError at the deadline
WaitReturn_RaiseOnDeadline(resps, el, stop) ==
    [responses |-> resps,
     exc       |-> IF el >= timeout THEN "SearchTimeoutError" ELSE "none"]

\* WaitReturn without the try/except of lines 150-153 around searches.stop
WaitReturn_StopPropagates(resps, el, stop) ==
    [responses |-> resps, exc |-> IF stop = "ok" THEN "none" ELSE stop]

\* _wait_for_search_completion, lines 149-158: stop is tried, its failure is
\* logged, the elapsed time is looked at and nothing is raised
WaitReturn(resps, el, stop) ==
    [responses |-> resps, exc |-> "none"]

\* enqueue_download: the result of transfers.enqueue is logged and True is
\* returned; any exception becomes DownloadError
enqueue_download(cached, construct, outcome) ==
    LET c == GetClient(cached, construct)
    IN  IF c.exc # "none"
        THEN [client |-> c.client, exc |-> "DownloadError", success |-> FALSE,
              called |-> FALSE]
        ELSE IF outcome \in ClientErrors
        THEN [client |-> c.client, exc |-> "DownloadError", success |-> FALSE,
              called |-> TRUE]
        ELSE [client |-> c.client, exc |-> "none", success |-> TRUE, called |-> TRUE]

\* FileDicts leaving out the files that have no size
FileDicts_DropsUnsized(files) ==
    LET sized == SelectSeq(files, LAMBDA f : f.size # NoneInt)
    IN  [i \in 1..Len(sized) |->
            [filename |-> sized[i].filename, code |-> sized[i].code, size |-> sized[i].size]]

\* enqueue_download, lines 198-207: the dicts handed to transfers.enqueue
FileDicts(files) ==
    [i \in 1..Len(files) |->
        [filename |-> files[i].filename, code |-> files[i].code, size |-> files[i].size]]

(***************************************************************************)
(* background_download_album                                               *)
(***************************************************************************)
\* lines 100-103: best_match; the selector is not called without users
SelectBest(users, artist, album) ==
    IF users = <<>> THEN NoMatch ELSE find_best_album_match(users, artist, album)

\* SelectBest on every search result a run can hold, computed once
SelectTable ==
    { [responses |-> r, artist |-> PinkFloyd, album |-> TheWall,
       best |-> SelectBest(ToUsers(r), PinkFloyd, TheWall)] : r \in ResponseLists }

\* line 100: find_best_album_match(search_result.users, artist, album)
Selected(resps, artist, album) ==
    (CHOOSE e \in SelectTable :
        e.responses = resps /\ e.artist = artist /\ e.album = album).best

\* AfterSearchWrite without the test of lines 95-98 for an empty user list
AfterSearchWrite_NoEmptyCheck(users, best_match) ==
    IF best_match = NoMatch
    THEN [status |-> "no_match", slskd_username |-> NoneStr,
          file_count |-> NoneInt, total_size |-> NoneInt]
    ELSE [status |-> "downloading", slskd_username |-> best_match.username,
          file_count |-> Len(best_match.files),
          total_size |-> TotalSize(best_match.files)]

\* lines 95-119: the first store write after the search returned
AfterSearchWrite(users, best_match) ==
    IF users = <<>>
    THEN [status |-> "no_results", slskd_username |-> NoneStr,
          file_count |-> NoneInt, total_size |-> NoneInt]
    ELSE IF best_match = NoMatch
    THEN [status |-> "no_match", slskd_username |-> NoneStr,
          file_count |-> NoneInt, total_size |-> NoneInt]
    ELSE [status |-> "downloading", slskd_username |-> best_match.username,
          file_count |-> Len(best_match.files),
          total_size |-> TotalSize(best_match.files)]

\* create_download_metadata without its try/except: the error of the write
\* reaches the caller
create_download_metadata_Propagates(outcome) ==
    [written |-> (outcome = "written"),
     exc     |-> IF outcome = "written" THEN "none" ELSE outcome]

\* create_download_metadata, lines 41-82: the whole body is in a try whose
\* `except Exception` logs the error; nothing is raised, nothing is returned
create_download_metadata(outcome) ==
    [written |-> (outcome = "written"), exc |-> "none"]

\* EnqueueStatus marking the request completed once the transfer is queued
EnqueueStatus_Completed(success) == IF success THEN "completed" ELSE "failed"

\* EnqueueStatus keeping the request in downloading once the transfer is queued
EnqueueStatus_StaysDownloading(success) == IF success THEN "downloading" ELSE "failed"

\* lines 134-142: the status written after enqueue_download returned
EnqueueStatus(success) == IF success THEN "enqueued" ELSE "failed"

\* the exception classes of app/core/exceptions.py: isinstance(e, cls)
IsInstance(e, cls) == e = cls \/ cls = "Exception"

\* lines 144-155: the except clauses in order, with the status each writes
ExceptClauses ==
    << [cls |-> "SlskdConnectionError", status |-> "connection_error"],
       [cls |-> "SearchTimeoutError",   status |-> "timeout"],
       [cls |-> "DownloadError",        status |-> "error"],
       [cls |-> "Exception",            status |-> "error"] >>

\* HandlerStatus with the two clauses for the typed search errors only
HandlerStatus_TypedOnly(e) ==
    LET hits == {i \in 1..2 : IsInstance(e, ExceptClauses[i].cls)}
    IN  IF hits = {} THEN "unhandled"
        ELSE ExceptClauses[CHOOSE i \in hits : \A j \in hits : i <= j].status

\* the status written by the first clause that catches e; "unhandled" when
\* no clause does and e leaves background_download_album
HandlerStatus(e) ==
    LET hits == {i \in 1..Len(ExceptClauses) : IsInstance(e, ExceptClauses[i].cls)}
    IN  IF hits = {} THEN "unhandled"
        ELSE ExceptClauses[CHOOSE i \in hits : \A j \in hits : i <= j].status

\* downloads.py, search_album lines 238-280: the HTTP status of the preview
PreviewHttp(e) ==
    CASE e = "none"                 -> 200
      [] e = "SlskdConnectionError" -> 503
      [] e = "SearchTimeoutError"   -> 408
      [] e = "DownloadError"        -> 500
      [] OTHER                      -> 500

(***************************************************************************)
(* State.                                                                  *)
(***************************************************************************)
VARIABLES
    db,         \* table download_requests, in order of insertion
    client,     \* slskd_service._client: "None" or "connected"
    pc,         \* where each run is
    search_id,  \* search_album: search_id
    elapsed,    \* _wait_for_search_completion: time.time() - start_time
    responses,  \* _wait_for_search_completion: responses, then the list returned
    exc,        \* the exception raised in the run, "none" if none
    best_match, \* background_download_album: best_match, NoMatch before
    success,    \* background_download_album: success
    metadata,   \* whether .noiseport_metadata.json of the task is on disk
    http,       \* HTTP status of the last answered search preview, 0 before
    \* what the backend saw of each run
    polls,      \* number of searches.state calls
    stops,      \* number of searches.stop calls
    stopped,    \* the searches.stop calls: the id given, whether the call raised
    enq,        \* the transfers.enqueue calls, with their outcome
    lastGood,   \* the responses of the latest state poll that returned
    fault,      \* how the backend failed the search: "none", "construct",
                \* "submit", "poll" (not reachable there), "noid" (no id given)
    \* what the store saw of each run
    writes,     \* number of update_request_status calls
    last,       \* the kind of the latest step of the run
    \* a function of the selector or of the store called on its own
    call,       \* the call: the function and its arguments
    ret         \* what the call returned, or the exception it raised

vars == <<db, client, pc, search_id, elapsed, responses, exc, best_match, success, metadata,
          http, polls, stops, stopped, enq, lastGood, fault, writes, last, call, ret>>

searchVars == <<search_id, elapsed, responses, polls, stops, stopped, lastGood, fault>>

callVars == <<call, ret>>

\* no function has been called on its own
NoCall == [op |-> "none"]
NoRet  == [op |-> "none"]

\* the process state before any request: no cached client, no run
ProgInit ==
    /\ client = "None"
    /\ pc = [p \in Procs |-> "idle"]
    /\ search_id = [p \in Procs |-> NoId]
    /\ elapsed = [p \in Procs |-> 0]
    /\ responses = [p \in Procs |-> <<>>]
    /\ exc = [p \in Procs |-> "none"]
    /\ best_match = [p \in Procs |-> NoMatch]
    /\ success = [p \in Procs |-> FALSE]
    /\ metadata = [p \in Procs |-> FALSE]
    /\ http = 0
    /\ polls = [p \in Procs |-> 0]
    /\ stops = [p \in Procs |-> 0]
    /\ stopped = [p \in Procs |-> <<>>]
    /\ enq = [p \in Procs |-> <<>>]
    /\ lastGood = [p \in Procs |-> <<>>]
    /\ fault = [p \in Procs |-> "none"]
    /\ writes = [p \in Procs |-> 0]
    /\ last = [p \in Procs |-> "none"]

Init ==
    /\ db = <<>>
    /\ ProgInit
    /\ call = NoCall
    /\ ret = NoRet

\* uuid.uuid4(): an identifier no request has had
uuid4(table) == Len(table) + 1

\* datetime.now(UTC) at an INSERT: later than every timestamp in the table
Now(table) == Len(table) + 1

\* the poll loop was left because its condition failed, not by break
DeadlineHit(p) == elapsed[p] >= timeout

\* the value search_album returned to the run, once pc is past "searched"
Users(p) == ToUsers(responses[p])

(***************************************************************************)
(* POST /download: the try block of download_album, lines 194-211, entered *)
(* with an artist, an album, a username and a vpn_ip: the row is created   *)
(* and the run is scheduled. SpecPost has the endpoint from the body on.   *)
(***************************************************************************)
DownloadAlbum(t) ==
    /\ pc[t] = "idle"
    /\ t = uuid4(db)
    /\ db' = create_request(db, t, PinkFloyd, TheWall, "user", "100.64.0.1", Now(db))
    /\ pc' = [pc EXCEPT ![t] = "search"]
    /\ last' = [last EXCEPT ![t] = "create"]
    /\ UNCHANGED <<client, exc, best_match, success, metadata, http, enq, writes>>
    /\ UNCHANGED searchVars
    /\ UNCHANGED callVars

(***************************************************************************)
(* search_album, run by a task or by the preview endpoint.                 *)
(***************************************************************************)
\* lines 69-81: the client, the submission, the check of the search id
Submit(p) ==
    /\ pc[p] = "search"
    /\ \E construct \in ConstructOutcomes, submit \in SubmitOutcomes :
          LET r == SearchSubmit(client, construct, submit, p + 1)
          IN  /\ client' = r.client
              /\ search_id' = [search_id EXCEPT ![p] = r.search_id]
              /\ exc' = [exc EXCEPT ![p] = r.exc]
              /\ pc' = [pc EXCEPT ![p] = IF r.exc = "none" THEN "poll" ELSE "raised"]
              /\ fault' = [fault EXCEPT ![p] =
                    IF client = "None" /\ construct # "ok"
                    THEN (IF construct = "ConnectionError" THEN "construct" ELSE "none")
                    ELSE IF submit = "ConnectionError" THEN "submit"
                    ELSE IF submit = "noid" THEN "noid"
                    ELSE "none"]
    /\ last' = [last EXCEPT ![p] = "submit"]
    /\ UNCHANGED <<db, elapsed, responses, best_match, success, metadata, http, polls, stops,
                   stopped, enq, lastGood, writes>>
    /\ UNCHANGED callVars

\* lines 131-147: one pass of the poll loop
Poll(p) ==
    /\ pc[p] = "poll"
    /\ elapsed[p] < timeout
    /\ \E outcome \in PollOutcomes :
          LET r == PollStep(responses[p], elapsed[p], outcome)
          IN  /\ responses' = [responses EXCEPT ![p] = r.responses]
              /\ elapsed' = [elapsed EXCEPT ![p] = r.elapsed]
              /\ pc' = [pc EXCEPT ![p] = IF r.completed THEN "stop" ELSE "poll"]
              /\ lastGood' = [lastGood EXCEPT ![p] =
                    IF outcome.raises = "none" THEN outcome.state.responses ELSE @]
              /\ fault' = [fault EXCEPT ![p] =
                    IF outcome.raises = "ConnectionError" THEN "poll" ELSE @]
    /\ polls' = [polls EXCEPT ![p] = @ + 1]
    /\ last' = [last EXCEPT ![p] = "poll"]
    /\ UNCHANGED <<db, client, search_id, exc, best_match, success, metadata, http, stops,
                   stopped, enq, writes>>
    /\ UNCHANGED callVars

\* lines 149-158 and 86-115: the loop is over; stop, conversion, return
Stop(p) ==
    /\ \/ pc[p] = "stop"
       \/ pc[p] = "poll" /\ elapsed[p] >= timeout
    /\ \E stop \in StopOutcomes :
          LET r == WaitReturn(responses[p], elapsed[p], stop)
          IN  /\ stopped' = [stopped EXCEPT ![p] =
                    Append(@, [search_id |-> search_id[p], raised |-> stop # "ok"])]
              /\ responses' = [responses EXCEPT ![p] = r.responses]
              /\ exc' = [exc EXCEPT ![p] =
                    IF r.exc = "none" THEN "none" ELSE SearchAlbumRaise(r.exc)]
              /\ pc' = [pc EXCEPT ![p] = IF r.exc = "none" THEN "searched" ELSE "raised"]
    /\ stops' = [stops EXCEPT ![p] = @ + 1]
    /\ last' = [last EXCEPT ![p] = "stop"]
    /\ UNCHANGED <<db, client, search_id, elapsed, best_match, success, metadata, http, polls,
                   enq, lastGood, fault, writes>>
    /\ UNCHANGED callVars

(***************************************************************************)
(* background_download_album after the search.                             *)
(***************************************************************************)
\* lines 95-119: no_results, no_match or downloading; users, best and w are
\* the locals of the run, each computed once
AfterSearch(t) ==
    /\ pc[t] = "searched"
    /\ \E users \in {Users(t)} :
       \E best \in {Selected(responses[t], RowOf(db, t).artist, RowOf(db, t).album)} :
       \E w \in {AfterSearchWrite(users, best)} :
           /\ best_match' = [best_match EXCEPT ![t] = best]
           /\ db' = update_request_status(db, t, w.status, w.slskd_username,
                                          w.file_count, w.total_size)
           /\ pc' = [pc EXCEPT ![t] = IF w.status = "downloading" THEN "downloading"
                                      ELSE "done"]
    /\ writes' = [writes EXCEPT ![t] = @ + 1]
    /\ last' = [last EXCEPT ![t] = "write"]
    /\ UNCHANGED <<client, exc, success, metadata, http, enq>>
    /\ UNCHANGED searchVars
    /\ UNCHANGED callVars

\* lines 121-132: create_download_metadata (its failure is logged only),
\* then enqueue_download
Enqueue(t) ==
    /\ pc[t] = "downloading"
    /\ \E meta \in MetadataOutcomes, construct \in ConstructOutcomes,
          outcome \in EnqueueOutcomes :
          LET m == create_download_metadata(meta)
              r == enqueue_download(client, construct, outcome)
          IN  /\ metadata' = [metadata EXCEPT ![t] = m.written]
              /\ IF m.exc # "none"
                 THEN /\ exc' = [exc EXCEPT ![t] = m.exc]
                      /\ pc' = [pc EXCEPT ![t] = "raised"]
                      /\ UNCHANGED <<client, success, enq>>
                 ELSE /\ client' = r.client
                      /\ exc' = [exc EXCEPT ![t] = r.exc]
                      /\ success' = [success EXCEPT ![t] = r.success]
                      /\ enq' = [enq EXCEPT ![t] =
                            IF r.called
                            THEN Append(@, [username |-> best_match[t].username,
                                            files    |-> FileDicts(best_match[t].files),
                                            outcome  |-> outcome])
                            ELSE @]
                      /\ pc' = [pc EXCEPT ![t] = IF r.exc = "none" THEN "enqueue_ret"
                                                 ELSE "raised"]
    /\ last' = [last EXCEPT ![t] = "enqueue"]
    /\ UNCHANGED <<db, best_match, http, writes>>
    /\ UNCHANGED searchVars
    /\ UNCHANGED callVars

\* lines 134-142: enqueued or failed
FinalWrite(t) ==
    /\ pc[t] = "enqueue_ret"
    /\ db' = SetStatus(db, t, EnqueueStatus(success[t]))
    /\ pc' = [pc EXCEPT ![t] = "done"]
    /\ writes' = [writes EXCEPT ![t] = @ + 1]
    /\ last' = [last EXCEPT ![t] = "write"]
    /\ UNCHANGED <<client, exc, best_match, success, metadata, http, enq>>
    /\ UNCHANGED searchVars
    /\ UNCHANGED callVars

\* lines 144-155: the except clauses
ExceptHandler(t) ==
    /\ pc[t] = "raised"
    /\ IF HandlerStatus(exc[t]) = "unhandled"
       THEN /\ pc' = [pc EXCEPT ![t] = "escaped"]
            /\ last' = [last EXCEPT ![t] = "raise"]
            /\ UNCHANGED <<db, writes>>
       ELSE /\ db' = SetStatus(db, t, HandlerStatus(exc[t]))
            /\ pc' = [pc EXCEPT ![t] = "done"]
            /\ writes' = [writes EXCEPT ![t] = @ + 1]
            /\ last' = [last EXCEPT ![t] = "write"]
    /\ UNCHANGED <<client, exc, best_match, success, metadata, http, enq>>
    /\ UNCHANGED searchVars
    /\ UNCHANGED callVars

Next ==
    \E t \in TaskIds :
        \/ DownloadAlbum(t)
        \/ Submit(t)
        \/ Poll(t)
        \/ Stop(t)
        \/ AfterSearch(t)
        \/ Enqueue(t)
        \/ FinalWrite(t)
        \/ ExceptHandler(t)

Spec == Init /\ [][Next]_vars

(***************************************************************************)
(* Several requests whose runs overlap. The steps of the runs interleave   *)
(* in every order; to keep the runs short the backend answers the first    *)
(* state poll of a search with a completed search and stops it without     *)
(* error (Spec has the slow and the failing polls).                        *)
(***************************************************************************)
Prompt ==
    \A t \in RunIds :
        /\ elapsed[t] = 0
        /\ polls[t] <= 1
        /\ \A i \in 1..Len(stopped[t]) : ~stopped[t][i].raised

NextRuns ==
    /\ \E t \in RunIds :
          \/ DownloadAlbum(t)
          \/ Submit(t)
          \/ Poll(t)
          \/ Stop(t)
          \/ AfterSearch(t)
          \/ Enqueue(t)
          \/ FinalWrite(t)
          \/ ExceptHandler(t)
    /\ Prompt'

SpecRuns == Init /\ [][NextRuns]_vars

\* A scheduled run is executed by the BackgroundTasks runner until it
\* returns: every call of the client library returns or raises, time.sleep
\* returns, and the statement that follows is executed. No request has to
\* arrive, so DownloadAlbum is under no fairness condition.
Fairness ==
    \A t \in TaskIds :
        /\ WF_vars(Submit(t))
        /\ WF_vars(Poll(t))
        /\ WF_vars(Stop(t))
        /\ WF_vars(AfterSearch(t))
        /\ WF_vars(Enqueue(t))
        /\ WF_vars(FinalWrite(t))
        /\ WF_vars(ExceptHandler(t))

SpecLive == Init /\ [][Next]_vars /\ Fairness

(***************************************************************************)
(* GET /search/{artist}/{album}: the endpoint is a coroutine that calls    *)
(* the blocking search_album, so one preview is served at a time.          *)
(***************************************************************************)
PreviewStart ==
    /\ pc[PreviewId] = "idle"
    /\ pc' = [pc EXCEPT ![PreviewId] = "search"]
    /\ search_id' = [search_id EXCEPT ![PreviewId] = NoId]
    /\ elapsed' = [elapsed EXCEPT ![PreviewId] = 0]
    /\ responses' = [responses EXCEPT ![PreviewId] = <<>>]
    /\ exc' = [exc EXCEPT ![PreviewId] = "none"]
    /\ polls' = [polls EXCEPT ![PreviewId] = 0]
    /\ stops' = [stops EXCEPT ![PreviewId] = 0]
    /\ stopped' = [stopped EXCEPT ![PreviewId] = <<>>]
    /\ lastGood' = [lastGood EXCEPT ![PreviewId] = <<>>]
    /\ fault' = [fault EXCEPT ![PreviewId] = "none"]
    /\ last' = [last EXCEPT ![PreviewId] = "none"]
    /\ UNCHANGED <<db, client, best_match, success, metadata, http, enq, writes>>
    /\ UNCHANGED callVars

\* lines 238-280: the result dict, or the HTTPException of the except clause
PreviewReturn ==
    /\ pc[PreviewId] \in {"searched", "raised"}
    /\ http' = PreviewHttp(exc[PreviewId])
    /\ pc' = [pc EXCEPT ![PreviewId] = "idle"]
    /\ last' = [last EXCEPT ![PreviewId] = "return"]
    /\ UNCHANGED <<db, client, exc, best_match, success, metadata, enq, writes>>
    /\ UNCHANGED searchVars
    /\ UNCHANGED callVars

NextPreview ==
    \/ PreviewStart
    \/ Submit(PreviewId)
    \/ Poll(PreviewId)
    \/ Stop(PreviewId)
    \/ PreviewReturn

SpecPreview == Init /\ [][NextPreview]_vars

(***************************************************************************)
(* The candidate selector called on its own: find_best_album_match, the    *)
(* choice of one peer's group, filter_album_files_priority on one group.   *)
(***************************************************************************)
progVarsNoDb == <<client, pc, search_id, elapsed, responses, exc, best_match, success,
                  metadata, http, polls, stops, stopped, enq, lastGood, fault, writes,
                  last>>

progVars == <<db, progVarsNoDb>>

InitSelect ==
    /\ db = <<>>
    /\ ProgInit
    /\ call \in {[op |-> "select", users |-> u, artist |-> q.artist, album |-> q.album] :
                    u \in PeerLists, q \in Queries}
    /\ ret = NoRet

\* find_best_album_match(users, artist, album)
SelectFindBest ==
    /\ call.op = "select"
    /\ ret = NoRet
    /\ ret' = [op    |-> "find_best_album_match",
               value |-> find_best_album_match(call.users, call.artist, call.album)]
    /\ UNCHANGED <<call, progVars>>

\* lines 228-248 for the files of peer i
SelectGroup(i) ==
    /\ call.op = "select"
    /\ ret = NoRet
    /\ i \in 1..Len(call.users)
    /\ call.users[i].files # <<>>
    /\ ret' = [op    |-> "album_files",
               peer  |-> i,
               value |-> AlbumFiles(call.users[i].files, call.artist, call.album)]
    /\ UNCHANGED <<call, progVars>>

\* filter_album_files_priority on the k-th group of peer i
SelectFilter(i) ==
    /\ call.op = "select"
    /\ ret = NoRet
    /\ i \in 1..Len(call.users)
    /\ \E albums \in {group_files_by_album(call.users[i].files)} :
       \E k \in 1..Len(albums) :
           ret' = [op    |-> "filter_album_files_priority",
                   files |-> albums[k].files,
                   value |-> filter_album_files_priority(albums[k].files)]
    /\ UNCHANGED <<call, progVars>>

NextSelect ==
    \/ SelectFindBest
    \/ \E i \in 1..MaxPeers : SelectGroup(i)
    \/ \E i \in 1..MaxPeers : SelectFilter(i)

SpecSelect == InitSelect /\ [][NextSelect]_vars

(***************************************************************************)
(* DownloadRequestService called on its own, each function in its own      *)
(* get_db() transaction.                                                   *)
(***************************************************************************)
\* the task ids the callers use
StoreTaskIds == 1..MaxRows

MusicDir == <<"/","m","u","s","i","c">>

\* the (status, slskd_username, file_count, total_size) of the calls of
\* update_request_status: all of them, or the status only
UpdateArgs ==
    { [status |-> "downloading", slskd_username |-> Alice, file_count |-> 2,
       total_size |-> 30],
      [status |-> "error", slskd_username |-> NoneStr, file_count |-> NoneInt,
       total_size |-> NoneInt] }

\* create_request: the INSERT and the SELECT of the new row, or the
\* IntegrityError of the INSERT, after which get_db rolls back and re-raises
StoreCreate(task_id) ==
    /\ call' = [op |-> "create_request", task_id |-> task_id, artist |-> PinkFloyd,
                album |-> TheWall, username |-> "user", vpn_ip |-> "100.64.0.1",
                before |-> db]
    /\ IF UniqueViolation(db, task_id)
       THEN /\ db' = db
            /\ ret' = [exc |-> "IntegrityError", value |-> NoRequest]
       ELSE /\ Len(db) < MaxRows
            /\ db' = create_request(db, task_id, PinkFloyd, TheWall, "user",
                                    "100.64.0.1", Now(db))
            /\ ret' = [exc |-> "none", value |-> from_row(db'[Len(db')])]
    /\ UNCHANGED progVarsNoDb

\* get_request_by_task_id; created is the create_request call that returned
\* just before, if the latest call was one
StoreGet(task_id) ==
    /\ call' = [op |-> "get_request_by_task_id", task_id |-> task_id,
                created |-> IF call.op = "create_request" /\ ret.exc = "none"
                            THEN [call EXCEPT !.before = <<>>] ELSE NoCall]
    /\ ret' = [exc   |-> "none",
               value |-> IF HasTask(db, task_id) THEN from_row(RowOf(db, task_id))
                         ELSE NoRequest]
    /\ UNCHANGED <<db, progVarsNoDb>>

\* update_request_status; repeat says that the call before was the same call
StoreUpdate(task_id) ==
    \E a \in UpdateArgs :
        /\ call' = [op |-> "update_request_status", task_id |-> task_id, args |-> a,
                    before |-> db,
                    repeat |-> IF call.op = "update_request_status"
                               THEN call.task_id = task_id /\ call.args = a
                               ELSE FALSE]
        /\ db' = update_request_status(db, task_id, a.status, a.slskd_username,
                                       a.file_count, a.total_size)
        /\ ret' = [exc |-> "none", value |-> RowCount(db, task_id) > 0]
        /\ UNCHANGED progVarsNoDb

\* complete_request
StoreComplete(task_id) ==
    /\ call' = [op |-> "complete_request", task_id |-> task_id,
                album_directory |-> MusicDir, completed_files |-> 2, before |-> db]
    /\ db' = complete_request(db, task_id, MusicDir, 2, Now(db))
    /\ ret' = [exc |-> "none", value |-> RowCount(db, task_id) > 0]
    /\ UNCHANGED progVarsNoDb

NextStore ==
    \E task_id \in StoreTaskIds :
        \/ StoreCreate(task_id)
        \/ StoreGet(task_id)
        \/ StoreUpdate(task_id)
        \/ StoreComplete(task_id)

SpecStore == Init /\ [][NextStore]_vars

(***************************************************************************)
(* The listing and counting functions of DownloadRequestService, called on *)
(* their own over tables that create_request filled: one call at a time,   *)
(* call and ret hold it until the caller has its answer.                   *)
(***************************************************************************)
\* the requesters and the addresses that make requests, and one more of
\* each that never does
Requesters     == {"alice", "bob"}
Addresses      == {"100.64.0.1", "100.64.0.2"}
UnknownUser    == "carol"
UnknownAddress == "100.64.0.9"

\* limit and offset are plain ints of the query string: any int is passed on
Limits  == -1..(MaxList + 1)
Offsets == -1..(MaxList + 1)

ListCreate(username, vpn_ip) ==
    /\ call = NoCall
    /\ Len(db) < MaxList
    /\ db' = create_request(db, uuid4(db), PinkFloyd, TheWall, username, vpn_ip, Now(db))
    /\ UNCHANGED <<progVarsNoDb, call, ret>>

ListAll(limit, offset) ==
    /\ call = NoCall
    /\ call' = [op |-> "get_all_requests", limit |-> limit, offset |-> offset]
    /\ ret' = [exc |-> "none", value |-> get_all_requests(db, limit, offset)]
    /\ UNCHANGED progVars

ListByUser(username, limit, offset) ==
    /\ call = NoCall
    /\ call' = [op |-> "get_requests_by_user", username |-> username, limit |-> limit,
                offset |-> offset]
    /\ ret' = [exc |-> "none", value |-> get_requests_by_user(db, username, limit, offset)]
    /\ UNCHANGED progVars

ListByVpnIp(vpn_ip, limit, offset) ==
    /\ call = NoCall
    /\ call' = [op |-> "get_requests_by_vpn_ip", vpn_ip |-> vpn_ip, limit |-> limit,
                offset |-> offset]
    /\ ret' = [exc |-> "none", value |-> get_requests_by_vpn_ip(db, vpn_ip, limit, offset)]
    /\ UNCHANGED progVars

CountAll ==
    /\ call = NoCall
    /\ call' = [op |-> "get_request_count"]
    /\ ret' = [exc |-> "none", value |-> get_request_count(db)]
    /\ UNCHANGED progVars

CountByUser(username) ==
    /\ call = NoCall
    /\ call' = [op |-> "get_user_request_count", username |-> username]
    /\ ret' = [exc |-> "none", value |-> get_user_request_count(db, username)]
    /\ UNCHANGED progVars

CountByVpnIp(vpn_ip) ==
    /\ call = NoCall
    /\ call' = [op |-> "get_vpn_ip_request_count", vpn_ip |-> vpn_ip]
    /\ ret' = [exc |-> "none", value |-> get_vpn_ip_request_count(db, vpn_ip)]
    /\ UNCHANGED progVars

\* the caller has the answer
ListReturn ==
    /\ call # NoCall
    /\ call' = NoCall
    /\ ret' = NoRet
    /\ UNCHANGED progVars

NextList ==
    \/ \E username \in Requesters, vpn_ip \in Addresses : ListCreate(username, vpn_ip)
    \/ \E limit \in Limits, offset \in Offsets : ListAll(limit, offset)
    \/ \E username \in Requesters \cup {UnknownUser}, limit \in Limits, offset \in Offsets :
          ListByUser(username, limit, offset)
    \/ \E vpn_ip \in Addresses \cup {UnknownAddress}, limit \in Limits, offset \in Offsets :
          ListByVpnIp(vpn_ip, limit, offset)
    \/ CountAll
    \/ \E username \in Requesters \cup {UnknownUser} : CountByUser(username)
    \/ \E vpn_ip \in Addresses \cup {UnknownAddress} : CountByVpnIp(vpn_ip)
    \/ ListReturn

SpecList == Init /\ [][NextList]_vars

(***************************************************************************)
(* POST /api/v1/downloads/download from the request body on: the body is   *)
(* parsed into schemas.DownloadRequest, then download_album runs.          *)
(***************************************************************************)
\* str.strip() for the blank
RECURSIVE Strip(_)
Strip(str) ==
    IF str # <<>> /\ Head(str) = " " THEN Strip(Tail(str))
    ELSE IF str # <<>> /\ str[Len(str)] = " " THEN Strip(SubSeq(str, 1, Len(str) - 1))
    ELSE str

\* what Field(..., min_length=1) and validate_non_empty_string make of one
\* field of the body (max_length=255 is out of reach of the bodies here)
ValidName(body, field) ==
    /\ field \in DOMAIN body
    /\ Len(body[field]) >= 1
    /\ Strip(body[field]) # <<>>

\* schemas.DownloadRequest(**body): the model has the fields artist and
\* album and no other; a key of the body that names no field is ignored
\* (pydantic's default extra="ignore"), an invalid field is a 422
DownloadRequestModel(body) ==
    IF ValidName(body, "artist") /\ ValidName(body, "album")
    THEN [exc |-> "none", model |-> [artist |-> Strip(body.artist),
                                      album  |-> Strip(body.album)]]
    ELSE [exc |-> "ValidationError", model |-> [artist |-> <<>>, album |-> <<>>]]

\* request.<name> on a pydantic model: the field, or AttributeError
GetAttr(model, name) ==
    IF name \in DOMAIN model THEN [exc |-> "none", value |-> model[name]]
    ELSE [exc |-> "AttributeError", value |-> NoneStr]

\* the JSON bodies sent: artist and album as given, blank, empty or
\* missing, with or without the keys vpn_ip and username
PostBodies ==
    LET names  == {[artist |-> a] : a \in {<<>>, <<" ">>, PinkFloyd, <<" ">> \o PinkFloyd}}
        albums == {<<>>} \cup {[album |-> a] : a \in {<<>>, TheWall}}
        ips    == {<<>>, [vpn_ip |-> "100.64.0.1"]}
        users  == {<<>>, [username |-> ""], [username |-> "alice"]}
    IN  {n @@ a @@ i @@ u : n \in names, a \in albums, i \in ips, u \in users}

\* what headscale_client.resolve_username may return: None or a name
ResolveOutcomes == {"", "alice"}

\* how the INSERT of create_request may end
InsertOutcomes == {"ok", "OperationalError"}

\* the number of requests answered so far
Posted == IF call = NoCall THEN 0 ELSE call.number

\* lines 158-225. The answer is 422 for a body the schema rejects, 500 (by
\* general_exception_handler) for an exception that leaves download_album
\* before its try, 500 (HTTPException) for one inside it, else 200 with the
\* task_id.
PostDownload(body) ==
    /\ Posted < MaxPosts
    /\ call' = [op |-> "download_album", body |-> body, number |-> Posted + 1]
    /\ \E resolved \in ResolveOutcomes, insert \in InsertOutcomes :
          LET parsed   == DownloadRequestModel(body)
              task_id  == uuid4(db)
              vpn_ip   == GetAttr(parsed.model, "vpn_ip")
              given    == GetAttr(parsed.model, "username")
              username == IF given.value # NoneStr /\ given.value # "" THEN given.value
                          ELSE IF resolved # "" THEN resolved
                          ELSE vpn_ip.value
          IN  IF parsed.exc # "none"
              THEN /\ ret' = [exc |-> parsed.exc, http |-> 422, task_id |-> NoneInt]
                   /\ UNCHANGED <<db, pc>>
              ELSE IF vpn_ip.exc # "none" \/ given.exc # "none"
              THEN /\ ret' = [exc |-> "AttributeError", http |-> 500, task_id |-> NoneInt]
                   /\ UNCHANGED <<db, pc>>
              ELSE IF insert # "ok"
              THEN /\ ret' = [exc |-> "HTTPException", http |-> 500, task_id |-> NoneInt]
                   /\ UNCHANGED <<db, pc>>
              ELSE /\ db' = create_request(db, task_id, parsed.model.artist,
                                           parsed.model.album, username, vpn_ip.value,
                                           Now(db))
                   /\ pc' = [pc EXCEPT ![task_id] = "search"]
                   /\ ret' = [exc |-> "none", http |-> 200, task_id |-> task_id]
    /\ UNCHANGED <<client, search_id, elapsed, responses, exc, best_match, success,
                   metadata, http, polls, stops, stopped, enq, lastGood, fault, writes,
                   last>>

NextPost == \E body \in PostBodies : PostDownload(body)

SpecPost == Init /\ [][NextPost]_vars

(***************************************************************************)
(* Properties.                                                             *)
(***************************************************************************)
\* the row of task t
Row(t) == RowOf(db, t)

\* the search of run p got to the end of _wait_for_search_completion
SearchEnded(p) == stops[p] > 0

TerminalStatuses ==
    {"no_results", "no_match", "enqueued", "failed", "connection_error", "timeout",
     "error"}

\* the edges of the lifecycle state machine
LifecycleEdges ==
    ({"pending"} \X {"no_results", "no_match", "downloading", "connection_error",
                     "timeout", "error"})
    \cup ({"downloading"} \X {"enqueued", "failed", "connection_error", "timeout",
                              "error"})

\* C1: a run of background_download_album lets no exception escape, and when
\* it has returned its latest step was a status write of the store and the
\* request is not pending, whatever the search and transfer clients did.
C1_RunEndsInStoreWrite ==
    \A t \in TaskIds :
        /\ pc[t] # "escaped"
        /\ pc[t] = "done" =>
              /\ last[t] = "write"
              /\ writes[t] >= 1
              /\ Row(t).status # "pending"

\* a run that returned after the transfer client raised
C1_Witness ==
    \E t \in TaskIds :
        /\ pc[t] = "done"
        /\ exc[t] = "DownloadError"
        /\ enq[t] # <<>>
        /\ Row(t).status = "error"

\* C2: every change of a request's status follows an edge of the lifecycle
\* state machine, so a terminal status never changes; rows are never removed.
C2_StatusFollowsLifecycle ==
    [][\A i \in 1..Len(db) :
          /\ Len(db') >= i
          /\ db'[i].task_id = db[i].task_id
          /\ db'[i].status # db[i].status =>
                <<db[i].status, db'[i].status>> \in LifecycleEdges
          /\ db[i].status \in TerminalStatuses => db'[i].status = db[i].status]_vars

\* a request that went pending -> downloading -> enqueued
C2_Witness ==
    \E t \in TaskIds :
        /\ pc[t] = "done"
        /\ writes[t] = 2
        /\ Row(t).status = "enqueued"

\* C3: when the search returned no peer, the run ends in no_results, writes
\* no peer, file count or size, and never calls transfers.enqueue.
C3_ZeroPeersNoResults ==
    \A t \in TaskIds :
        (SearchEnded(t) /\ responses[t] = <<>>) =>
            /\ pc[t] \in {"searched", "done"}
            /\ enq[t] = <<>>
            /\ pc[t] = "done" =>
                  /\ Row(t).status = "no_results"
                  /\ Row(t).slskd_username = NoneStr
                  /\ Row(t).file_count = 0
                  /\ Row(t).total_size = 0

\* a run that returned after a search without peers
C3_Witness ==
    \E t \in TaskIds :
        /\ SearchEnded(t)
        /\ responses[t] = <<>>
        /\ pc[t] = "done"
        /\ Row(t).status = "no_results"

\* C4: when the search returned peers and the selector returned None (as it
\* does for peers that only have 128 kbps mp3 files in directories that do
\* not name the album), the run ends in no_match and never calls
\* transfers.enqueue.
C4_NoCandidateNoMatch ==
    \A t \in TaskIds :
        /\ (SearchEnded(t) /\ writes[t] >= 1 /\ responses[t] # <<>>
               /\ best_match[t] = NoMatch) =>
              /\ pc[t] = "done"
              /\ Row(t).status = "no_match"
              /\ enq[t] = <<>>
        /\ (SearchEnded(t) /\ writes[t] >= 1 /\ responses[t] = ScenarioB) =>
              /\ best_match[t] = NoMatch
              /\ Row(t).status = "no_match"
              /\ enq[t] = <<>>

\* a run that returned after a search that found 128 kbps mp3 files only
C4_Witness ==
    \E t \in TaskIds :
        /\ pc[t] = "done"
        /\ responses[t] = ScenarioB
        /\ Row(t).status = "no_match"
        /\ enq[t] = <<>>

\* C5, as claimed: when the search returned one peer with ten 320 kbps mp3
\* files under "Pink Floyd/The Wall" and the transfer client refused no
\* enqueue call, the run ends in enqueued with file_count 10.
C5_ScenarioAEnqueued ==
    \A t \in TaskIds :
        (/\ pc[t] = "done"
         /\ SearchEnded(t)
         /\ responses[t] = ScenarioA
         /\ \A i \in 1..Len(enq[t]) : enq[t][i].outcome = "accepted") =>
            /\ Row(t).status = "enqueued"
            /\ Row(t).file_count = 10

\* C6, as claimed: when a candidate was chosen and the transfer client
\* rejected the enqueue call or failed it, the run ends in failed.
C6_RefusedEnqueueFailed ==
    \A t \in TaskIds :
        (/\ pc[t] = "done"
         /\ enq[t] # <<>>
         /\ enq[t][Len(enq[t])].outcome # "accepted") =>
            Row(t).status = "failed"

\* C7: when the submission returns no search id, search_album raises
\* DownloadError before any state poll or stop call, the run ends in error
\* and transfers.enqueue is never called.
C7_NoSearchIdError ==
    \A t \in TaskIds :
        fault[t] = "noid" =>
            /\ pc[t] \in {"raised", "done"}
            /\ exc[t] = "DownloadError"
            /\ polls[t] = 0
            /\ stops[t] = 0
            /\ enq[t] = <<>>
            /\ pc[t] = "done" => Row(t).status = "error"

\* a run that returned after a submission without search id
C7_Witness ==
    \E t \in TaskIds :
        /\ fault[t] = "noid"
        /\ pc[t] = "done"
        /\ Row(t).status = "error"

\* C8, as claimed: when the backend was not reachable while the client was
\* built, the search submitted or its state polled, search_album raises
\* SlskdConnectionError and the run ends in connection_error.
C8_UnreachableConnectionError ==
    \A t \in TaskIds :
        fault[t] \in {"construct", "submit", "poll"} =>
            /\ pc[t] \in {"raised", "done"} => exc[t] = "SlskdConnectionError"
            /\ pc[t] = "done" => Row(t).status = "connection_error"

\* C9, as claimed: a search preview whose poll loop ran into the deadline is
\* answered with HTTP 408.
C9_PreviewDeadline408 ==
    (/\ pc[PreviewId] = "idle"
     /\ last[PreviewId] = "return"
     /\ DeadlineHit(PreviewId)) =>
        http = 408

\* C10: in a background run whose poll loop ran into the deadline, the search
\* returns without raising the responses of the latest state poll that
\* returned (none if none did), and the run goes on as after a completed
\* search: no_results without peers, no_match without a candidate, else
\* downloading with the selected peer and then the enqueue call; the
\* deadline itself never makes the status timeout.
C10_DeadlineIsNotAFailure ==
    \A t \in TaskIds :
        (SearchEnded(t) /\ DeadlineHit(t)) =>
            /\ responses[t] = lastGood[t]
            /\ pc[t] = "searched" => exc[t] = "none"
            /\ pc[t] = "raised" => last[t] = "enqueue"
            /\ pc[t] \in {"searched", "downloading", "enqueue_ret", "raised", "done"}
            /\ writes[t] >= 1 =>
                  /\ Row(t).status # "timeout"
                  /\ responses[t] = <<>> => Row(t).status = "no_results"
                  /\ (responses[t] # <<>> /\ best_match[t] = NoMatch) =>
                        Row(t).status = "no_match"
                  /\ best_match[t] # NoMatch =>
                        /\ Row(t).status \in {"downloading", "enqueued", "failed", "error"}
                        /\ Row(t).slskd_username = best_match[t].username
                        /\ pc[t] = "done" => enq[t] # <<>>

\* a run whose search hit the deadline after a poll that returned the flac
\* peer and a poll that raised, and that went on to enqueue the transfer
C10_Witness ==
    \E t \in TaskIds :
        /\ DeadlineHit(t)
        /\ polls[t] = 2
        /\ fault[t] = "poll"
        /\ responses[t] = ScenarioFlac
        /\ pc[t] = "done"
        /\ Row(t).status = "enqueued"

\* C11, as claimed: a background run whose poll loop ran into the deadline
\* lets no SearchTimeoutError out and ends with the request in timeout.
C11_DeadlineRecordsTimeout ==
    \A t \in TaskIds :
        /\ pc[t] # "escaped"
        /\ (pc[t] = "done" /\ SearchEnded(t) /\ DeadlineHit(t)) =>
              Row(t).status = "timeout"

\* C12: a search that got an id makes no searches.stop call while it polls
\* and exactly one, for its id, before search_album returns, whether the
\* loop ended on Completed, on the deadline or after polls that raised; a
\* search without id makes none.  A stop call that raised is swallowed: the
\* search returns without exception the responses of the latest poll that
\* returned, and the run ends as those responses and the enqueue call
\* decide.
C12_StopOnceAndSwallowed ==
    \A t \in TaskIds :
        /\ Len(stopped[t]) = stops[t]
        /\ pc[t] \in {"idle", "search", "poll", "stop"} => stopped[t] = <<>>
        /\ search_id[t] = NoId => stopped[t] = <<>>
        /\ (search_id[t] # NoId /\ pc[t] \notin {"idle", "search", "poll", "stop"}) =>
              /\ Len(stopped[t]) = 1
              /\ stopped[t][1].search_id = search_id[t]
        /\ (stopped[t] # <<>> /\ stopped[t][1].raised) =>
              /\ responses[t] = lastGood[t]
              /\ pc[t] = "searched" => exc[t] = "none"
              /\ pc[t] = "raised" => last[t] = "enqueue"
              /\ pc[t] = "done" =>
                    Row(t).status =
                        IF responses[t] = <<>> THEN "no_results"
                        ELSE IF best_match[t] = NoMatch THEN "no_match"
                        ELSE IF exc[t] = "none" THEN "enqueued"
                        ELSE "error"

\* a run whose polls raised or ran into the deadline, whose stop call raised
\* and that went on to enqueue the transfer
C12_Witness ==
    \E t \in TaskIds :
        /\ stopped[t] # <<>>
        /\ stopped[t][1].raised
        /\ DeadlineHit(t)
        /\ fault[t] = "poll"
        /\ pc[t] = "done"
        /\ Row(t).status = "enqueued"

(***************************************************************************)
(* The selector, in the words of its contract.                             *)
(***************************************************************************)
\* the file name ends in .ext, in any case
HasExt(f, ext) == EndsWith(Lower(f.filename), <<".">> \o ext)

IsMp3_320(f) == HasExt(f, Mp3Ext) /\ f.bit_rate = 320
IsFlac(f)    == HasExt(f, FlacExt)

\* the subsequence of s at the positions in S
AtPositions(s, S) ==
    [k \in 1..Cardinality(S) |->
        s[CHOOSE j \in S : Cardinality({i \in S : i < j}) = k - 1]]

\* the files of one directory, in file order
DirectoryGroup(files, dir) ==
    AtPositions(files, {j \in 1..Len(files) : Dirname(files[j].filename) = dir})

\* the position of the first file of a directory
FirstFileOf(files, dir) ==
    CHOOSE j \in 1..Len(files) :
        /\ Dirname(files[j].filename) = dir
        /\ \A i \in 1..(j - 1) : Dirname(files[i].filename) # dir

\* summed size of a directory, a missing size counted as 0
DirectorySize(files, dir) ==
    LET pos == {j \in 1..Len(files) : Dirname(files[j].filename) = dir}
        sized == {j \in pos : files[j].size # NoneInt}
        RECURSIVE Sum(_)
        Sum(S) == IF S = {} THEN 0
                  ELSE LET j == CHOOSE x \in S : TRUE IN files[j].size + Sum(S \ {j})
    IN  Sum(sized)

\* the directory whose group is the candidate group of a peer with files
CandidateDirectory(files, artist, album) ==
    LET dirs     == {Dirname(files[j].filename) : j \in 1..Len(files)}
        named    == {d \in dirs : /\ Contains(Lower(artist), Lower(d))
                                   /\ Contains(Lower(album), Lower(d))}
        largest  == {d \in dirs : \A e \in dirs :
                        DirectorySize(files, e) <= DirectorySize(files, d)}
        pool     == IF named # {} THEN named ELSE largest
    IN  CHOOSE d \in pool :
            \A e \in pool : FirstFileOf(files, d) <= FirstFileOf(files, e)

\* what a peer yields: the files of the better tier of its candidate group
PeerYield(peer, artist, album) ==
    IF peer.files = <<>> THEN <<>>
    ELSE LET g == DirectoryGroup(peer.files,
                                 CandidateDirectory(peer.files, artist, album))
             mp3  == {j \in 1..Len(g) : IsMp3_320(g[j])}
             flac == {j \in 1..Len(g) : IsFlac(g[j])}
         IN  IF mp3 # {} THEN AtPositions(g, mp3) ELSE AtPositions(g, flac)

\* C13: find_best_album_match returns the first peer of the list, in order,
\* that yields files, with the files it yields, whatever peers come after
\* it, and None exactly when no peer of the list yields any; the files
\* returned are not empty, belong to that peer and share one directory.
C13_FirstYieldingPeerWins ==
    ret.op = "find_best_album_match" =>
        LET users   == call.users
            yielding == {i \in 1..Len(users) :
                            PeerYield(users[i], call.artist, call.album) # <<>>}
        IN  /\ (ret.value = NoMatch) <=> (yielding = {})
            /\ yielding # {} =>
                  LET k == CHOOSE i \in yielding : \A j \in yielding : i <= j
                  IN  /\ ret.value.username = users[k].username
                      /\ ret.value.files = PeerYield(users[k], call.artist, call.album)
                      /\ ret.value = find_best_album_match(SubSeq(users, 1, k),
                                                           call.artist, call.album)
                      /\ ret.value.files # <<>>
                      /\ \A i \in 1..Len(ret.value.files) :
                            /\ \E j \in 1..Len(users[k].files) :
                                  users[k].files[j] = ret.value.files[i]
                            /\ Dirname(ret.value.files[i].filename)
                                  = Dirname(ret.value.files[1].filename)

\* the second peer of a list won: the first has files and yields none
C13_Witness ==
    /\ ret.op = "find_best_album_match"
    /\ Len(call.users) = 2
    /\ call.users[1].files # <<>>
    /\ ret.value # NoMatch
    /\ ret.value.username = call.users[2].username
    /\ ret.value.username # call.users[1].username

C15_QualityTiers ==
    ret.op = "filter_album_files_priority" =>
        LET g    == ret.files
            mp3  == {j \in 1..Len(g) : IsMp3_320(g[j])}
            flac == {j \in 1..Len(g) : IsFlac(g[j])}
        IN  /\ mp3 # {} => ret.value = AtPositions(g, mp3)
            /\ (mp3 = {} /\ flac # {}) => ret.value = AtPositions(g, flac)
            /\ (mp3 = {} /\ flac = {}) => ret.value = <<>>
            /\ \A i, j \in 1..Len(ret.value) :
                  ~(IsMp3_320(ret.value[i]) /\ IsFlac(ret.value[j]))

\* a group with 320 kbps mp3 files, a flac file and a 128 kbps mp3 file: the
\* two 320 kbps files were returned
C15_Witness ==
    /\ ret.op = "filter_album_files_priority"
    /\ \E i, j \in 1..Len(ret.files) :
          /\ IsFlac(ret.files[i])
          /\ HasExt(ret.files[j], Mp3Ext)
          /\ ret.files[j].bit_rate = 128
    /\ Len(ret.value) = 2
    /\ \A i \in 1..Len(ret.value) : IsMp3_320(ret.value[i])

\* a peer is passed over: it has no file, or no file of its candidate group
\* is of either tier
PassedOver(peer, artist, album) ==
    \/ peer.files = <<>>
    \/ LET g == DirectoryGroup(peer.files,
                                CandidateDirectory(peer.files, artist, album))
       IN  \A j \in 1..Len(g) : ~IsMp3_320(g[j]) /\ ~IsFlac(g[j])

\* a file of the peer outside its candidate group is of one of the tiers
QualifiesElsewhere(peer, artist, album) ==
    /\ peer.files # <<>>
    /\ \E j \in 1..Len(peer.files) :
          /\ Dirname(peer.files[j].filename)
                # CandidateDirectory(peer.files, artist, album)
          /\ IsMp3_320(peer.files[j]) \/ IsFlac(peer.files[j])

AuditColumns == {"task_id", "artist", "album", "username", "vpn_ip", "timestamp"}

\* rows a and b agree on the columns in cols
SameOn(a, b, cols) == \A c \in cols : a[c] = b[c]

\* tables a and b have the same rows but for the one of task_id
SameButFor(a, b, task_id) ==
    /\ Len(a) = Len(b)
    /\ \A i \in 1..Len(a) : a[i].task_id # task_id => b[i] = a[i]

\* C17: get_request_by_task_id called right after a create_request that
\* returned gives, for the task_id created, a request in pending with the
\* task_id, artist, album, username and vpn_ip given to create_request, a
\* timestamp, no slskd_username, file_count 0, total_size 0, no
\* album_directory and no completed_at; create_request returned the same.
C17_CreateThenGet ==
    (/\ call.op = "get_request_by_task_id"
     /\ call.created # NoCall
     /\ call.created.task_id = call.task_id) =>
        /\ ret.value # NoRequest
        /\ ret.value.status = "pending"
        /\ SameOn(ret.value, call.created, {"task_id", "artist", "album", "username", "vpn_ip"})
        /\ ret.value.timestamp # NoneInt
        /\ ret.value.slskd_username = NoneStr
        /\ ret.value.file_count = 0
        /\ ret.value.total_size = 0
        /\ ret.value.album_directory = NoneStr
        /\ ret.value.completed_at = NoneInt

\* the second request of the store was created, then read
C17_Witness ==
    /\ call.op = "get_request_by_task_id"
    /\ call.created # NoCall
    /\ call.created.task_id = call.task_id
    /\ Len(db) = 2
    /\ ret.value.id = 2
    /\ ret.value.status = "pending"

\* C18: create_request raises exactly when the table has a row of the
\* task_id, and then the table is what it was; no two rows of the table
\* ever have the same task_id.
C18_DuplicateTaskRejected ==
    /\ \A i, j \in 1..Len(db) : db[i].task_id = db[j].task_id => i = j
    /\ call.op = "create_request" =>
          /\ (ret.exc # "none") <=> HasTask(call.before, call.task_id)
          /\ ret.exc # "none" => db = call.before
          /\ ret.exc = "none" => Len(db) = Len(call.before) + 1

\* create_request was refused for the task_id of a completed request
C18_Witness ==
    /\ call.op = "create_request"
    /\ ret.exc = "IntegrityError"
    /\ Len(db) = 2
    /\ RowOf(db, call.task_id).status = "completed"

\* C19: update_request_status returns whether the table has a row of the
\* task_id; it leaves every other row as it was, and in that row changes
\* the status to the one given and slskd_username, file_count, total_size
\* to the values given that are not None, and nothing else; without such a
\* row the table is what it was.
C19_UpdateFrame ==
    call.op = "update_request_status" =>
        /\ ret.value = HasTask(call.before, call.task_id)
        /\ SameButFor(call.before, db, call.task_id)
        /\ ~HasTask(call.before, call.task_id) => db = call.before
        /\ HasTask(call.before, call.task_id) =>
              LET old == RowOf(call.before, call.task_id)
                  new == RowOf(db, call.task_id)
                  a   == call.args
              IN  /\ new.status = a.status
                  /\ new.slskd_username =
                        IF a.slskd_username = NoneStr THEN old.slskd_username
                        ELSE a.slskd_username
                  /\ new.file_count =
                        IF a.file_count = NoneInt THEN old.file_count ELSE a.file_count
                  /\ new.total_size =
                        IF a.total_size = NoneInt THEN old.total_size ELSE a.total_size
                  /\ SameOn(old, new, AuditColumns \cup {"id", "completed_files",
                                                         "album_directory", "completed_at"})

\* a completed request with a peer, a count and a size was given the status
\* error and nothing else, next to another request
C19_Witness ==
    /\ call.op = "update_request_status"
    /\ ret.value
    /\ Len(db) = 2
    /\ call.args.status = "error"
    /\ RowOf(db, call.task_id).slskd_username = Alice
    /\ RowOf(db, call.task_id).file_count = 2
    /\ RowOf(db, call.task_id).total_size = 30
    /\ RowOf(db, call.task_id).completed_at # NoneInt

\* C20: complete_request returns whether the table has a row of the
\* task_id; it leaves every other row as it was, and in that row sets the
\* status completed, album_directory and completed_files as given and
\* completed_at, and nothing else; without such a row the table is what it
\* was.
C20_CompleteFrame ==
    call.op = "complete_request" =>
        /\ ret.value = HasTask(call.before, call.task_id)
        /\ SameButFor(call.before, db, call.task_id)
        /\ ~HasTask(call.before, call.task_id) => db = call.before
        /\ HasTask(call.before, call.task_id) =>
              LET old == RowOf(call.before, call.task_id)
                  new == RowOf(db, call.task_id)
              IN  /\ new.status = "completed"
                  /\ new.album_directory = call.album_directory
                  /\ new.completed_files = call.completed_files
                  /\ new.completed_at # NoneInt
                  /\ SameOn(old, new, AuditColumns \cup {"id", "slskd_username",
                                                         "file_count", "total_size"})

\* a request with a peer, a count and a size was completed next to a
\* request that stayed pending
C20_Witness ==
    /\ call.op = "complete_request"
    /\ ret.value
    /\ Len(db) = 2
    /\ RowOf(db, call.task_id).file_count = 2
    /\ RowOf(db, call.task_id).slskd_username = Alice
    /\ \E i \in 1..Len(db) : db[i].task_id # call.task_id /\ db[i].status = "pending"

\* C21: update_request_status called a second time in a row for the same
\* task_id with the same terminal status and no optional argument leaves the
\* table as the first call left it: every column of the row keeps its value.
C21_RepeatedUpdateIsNoOp ==
    (/\ call.op = "update_request_status"
     /\ call.repeat
     /\ call.args.status \in TerminalStatuses
     /\ call.args.slskd_username = NoneStr
     /\ call.args.file_count = NoneInt
     /\ call.args.total_size = NoneInt)
    => db = call.before

\* the status error was written twice in a row to a completed request that
\* has a peer, a count, a size, a directory and a completion time
C21_Witness ==
    /\ call.op = "update_request_status"
    /\ call.repeat
    /\ call.args.status = "error"
    /\ call.args.slskd_username = NoneStr
    /\ HasTask(db, call.task_id)
    /\ RowOf(db, call.task_id).status = "error"
    /\ RowOf(db, call.task_id).slskd_username = Alice
    /\ RowOf(db, call.task_id).file_count = 2
    /\ RowOf(db, call.task_id).album_directory = MusicDir
    /\ RowOf(db, call.task_id).completed_at # NoneInt

\* the terminal statuses of a request that did not succeed
FailingStatuses ==
    {"no_results", "no_match", "failed", "connection_error", "timeout", "error"}

\* a completion column of the row holds a value
CompletionSet(row) ==
    \/ row.album_directory # NoneStr
    \/ row.completed_files # 0
    \/ row.completed_at # NoneInt

\* C24: in every state the program reaches, a request whose status is one
\* of the failing terminal statuses has no completion directory, no
\* completed file count and no completed_at; a request that has one of them
\* has the status completed. (No code of the program calls complete_request,
\* the only function that writes these columns.)
C24_FailureHasNoCompletion ==
    \A i \in 1..Len(db) :
        /\ db[i].status \in FailingStatuses => ~CompletionSet(db[i])
        /\ CompletionSet(db[i]) => db[i].status = "completed"

\* a request failed after its downloading write: the transfer call raised
C24_Witness ==
    \E t \in TaskIds :
        /\ pc[t] = "done"
        /\ writes[t] = 2
        /\ Row(t).status = "error"
        /\ Row(t).slskd_username # NoneStr
        /\ ~CompletionSet(Row(t))

\* the three columns the downloading write fills
PeerColumns(row) == <<row.slskd_username, row.file_count, row.total_size>>

\* C26: slskd_username, file_count and total_size are null/zero while the
\* status is pending, no_results or no_match, and a step changes them in a
\* row only when it moves that row from pending to downloading: they are
\* written at most once and no later write of the run touches them.
C26_PeerColumnsWrittenOnce ==
    [][/\ \A i \in 1..Len(db') :
             db'[i].status \in {"pending", "no_results", "no_match"}
                 => PeerColumns(db'[i]) = <<NoneStr, 0, 0>>
       /\ \A i \in 1..Len(db) :
             PeerColumns(db'[i]) # PeerColumns(db[i])
                 => db[i].status = "pending" /\ db'[i].status = "downloading"]_vars

\* the terminal write came after the downloading write and the row still has
\* the peer, the count and the size of the selection
C26_Witness ==
    \E t \in TaskIds :
        /\ pc[t] = "done"
        /\ writes[t] = 2
        /\ Row(t).status = "enqueued"
        /\ PeerColumns(Row(t)) =
              <<best_match[t].username, Len(best_match[t].files), 30>>
        /\ Len(best_match[t].files) = 2

\* sum of the sizes of file dicts, a missing size counting 0
SizeSum(files) ==
    SumSeq([i \in 1..Len(files) |-> IF files[i].size = NoneInt THEN 0 ELSE files[i].size])

\* C27: a run goes search (submit, polls, stop), selection, downloading
\* write, enqueue, terminal write, in that order: nothing is written or
\* selected before the search has ended; transfers.enqueue is called at
\* most once, only after the downloading write, with the peer that write
\* recorded and the selected files, whose number and summed size (a missing
\* size counting 0) are the recorded file_count and total_size; the terminal
\* write follows the call.
C27_StepsInOrder ==
    \A t \in TaskIds :
        /\ pc[t] \in {"idle", "search", "poll", "stop", "searched"}
              => writes[t] = 0 /\ enq[t] = <<>> /\ best_match[t] = NoMatch
        /\ pc[t] \in {"idle", "search", "poll"} => stops[t] = 0
        /\ best_match[t] # NoMatch => stops[t] = 1 /\ writes[t] >= 1
        /\ pc[t] = "downloading"
              => /\ writes[t] = 1
                 /\ enq[t] = <<>>
                 /\ Row(t).status = "downloading"
                 /\ Row(t).slskd_username = best_match[t].username
                 /\ Row(t).file_count = Len(best_match[t].files)
        /\ Len(enq[t]) <= 1
        /\ enq[t] # <<>>
              => LET sent == enq[t][1]
                 IN  /\ writes[t] >= 1
                     /\ Row(t).status # "pending"
                     /\ sent.username = Row(t).slskd_username
                     /\ Len(sent.files) = Row(t).file_count
                     /\ SizeSum(sent.files) = Row(t).total_size
                     /\ Len(sent.files) = Len(best_match[t].files)
                     /\ \A i \in 1..Len(sent.files) :
                           /\ sent.files[i].filename = best_match[t].files[i].filename
                           /\ sent.files[i].size = best_match[t].files[i].size
                     /\ pc[t] = "enqueue_ret" => writes[t] = 1
                     /\ pc[t] = "done" => writes[t] = 2 /\ last[t] = "write"

\* two flac files of the second peer, one without a size, were recorded,
\* enqueued once and the terminal status was written
C27_Witness ==
    \E t \in TaskIds :
        /\ pc[t] = "done"
        /\ Row(t).status = "enqueued"
        /\ Len(enq[t]) = 1
        /\ enq[t][1].username = Dave
        /\ Row(t).file_count = 2
        /\ Row(t).total_size = 30
        /\ \E i \in 1..2 : enq[t][1].files[i].size = NoneInt

\* the run of t is past create_download_metadata and enqueue_download
PastEnqueue(t) ==
    best_match[t] # NoMatch /\ pc[t] \in {"enqueue_ret", "raised", "done"}

\* C30: whether or not create_download_metadata could write its file, a run
\* that got past it has called transfers.enqueue once, and its terminal
\* status is the one the outcome of that call gives: a failure of the
\* metadata write changes neither.
C30_MetadataFailureSwallowed ==
    \A t \in TaskIds :
        PastEnqueue(t) =>
            /\ Len(enq[t]) = 1
            /\ pc[t] = "raised" => exc[t] = "DownloadError"
            /\ pc[t] = "done" =>
                  Row(t).status = IF enq[t][1].outcome \in ClientErrors THEN "error"
                                  ELSE "enqueued"

\* the metadata file could not be written and the request was enqueued
C30_Witness ==
    \E t \in TaskIds :
        /\ PastEnqueue(t)
        /\ ~metadata[t]
        /\ pc[t] = "done"
        /\ Len(enq[t]) = 1
        /\ Row(t).status = "enqueued"

\* C29: when every call of the backend returns or raises and the clock
\* advances, a run that was started writes a terminal status in the end: the
\* poll loop is left on completion or at the deadline, and nothing after it
\* loops.
C29_RunTerminates ==
    \A t \in TaskIds :
        (pc[t] = "search") ~> (pc[t] = "done" /\ Row(t).status \in TerminalStatuses)

\* a state poll could not reach the backend, the polls went on until the
\* deadline, and the run wrote a terminal status
C29_Witness ==
    \E t \in TaskIds :
        /\ fault[t] = "poll"
        /\ polls[t] >= 2
        /\ elapsed[t] >= timeout
        /\ pc[t] = "done"
        /\ Row(t).status \in TerminalStatuses

\* the columns a run writes, and those of the request
RunColumns ==
    {"artist", "album", "username", "vpn_ip", "status", "slskd_username", "file_count",
     "total_size", "completed_files", "album_directory", "completed_at"}

\* the row a finished run leaves when it is the only run, from what its own
\* calls of the backend gave: the users of its search, its selection, the
\* exception it caught, the result of its enqueue_download
AloneRow(t) ==
    LET created  == <<NewRow(1, t, PinkFloyd, TheWall, "user", "100.64.0.1", 1)>>
        selected == Selected(responses[t], PinkFloyd, TheWall)
        w        == AfterSearchWrite(Users(t), selected)
        searched == IF stops[t] = 0 \/ (exc[t] # "none" /\ enq[t] = <<>>)
                    THEN SetStatus(created, t, HandlerStatus(exc[t]))
                    ELSE update_request_status(created, t, w.status, w.slskd_username,
                                               w.file_count, w.total_size)
        final    == IF searched[1].status # "downloading" THEN searched
                    ELSE IF exc[t] # "none"
                    THEN SetStatus(searched, t, HandlerStatus(exc[t]))
                    ELSE SetStatus(searched, t, EnqueueStatus(success[t]))
    IN  final[1]

\* C28: when the runs of several requests overlap, under every interleaving
\* of their steps a step changes at most the row of the run that takes it,
\* and a run that has returned leaves its row with the status and the
\* columns it leaves when it runs alone and its calls of the backend end
\* the same way.
C28_RunsIndependent ==
    /\ [][\A i \in 1..Len(db) :
             db'[i] # db[i] =>
                 /\ pc'[db[i].task_id] # pc[db[i].task_id]
                 /\ \A u \in RunIds \ {db[i].task_id} : pc'[u] = pc[u]]_vars
    /\ [](\A t \in RunIds :
             pc[t] = "done" => SameOn(Row(t), AloneRow(t), RunColumns))

\* the second request was enqueued while the run of the first, which began
\* earlier and will find no peer, has not written anything yet
C28_Witness ==
    /\ Len(db) >= 2
    /\ pc[1] = "searched"
    /\ responses[1] = <<>>
    /\ Row(1).status = "pending"
    /\ pc[2] = "done"
    /\ Row(2).status = "enqueued"
    /\ Row(2).slskd_username = Dave

\* the rows of s at the positions from .. from + n - 1, counted from 0
Slice(s, from, n) ==
    LET at == {p \in from..(from + n - 1) : 0 <= p /\ p < Len(s)}
    IN  [k \in 1..Cardinality(at) |-> s[from + k + (IF from < 0 THEN -from ELSE 0)]]

\* the whole table, newest first
FullListing == get_all_requests(db, Len(db), 0)

\* the timestamps of a listing fall from one row to the next
NewestFirst(listing) ==
    \A i \in 1..(Len(listing) - 1) : listing[i].timestamp > listing[i + 1].timestamp

\* the pages of the given length, one after the other
RECURSIVE Pages(_, _)
Pages(limit, offset) ==
    IF offset >= Len(db) THEN <<>>
    ELSE get_all_requests(db, limit, offset) \o Pages(limit, offset + limit)

\* C22: whatever the table, the limit and the offset, get_all_requests
\* returns the rows at the positions offset .. offset+limit-1 of the table
\* ordered by falling timestamp; the pages of one length, taken one after
\* the other, make up that ordering.
C22_PageIsSlice ==
    call.op = "get_all_requests" =>
        /\ NewestFirst(FullListing)
        /\ ret.value = Slice(FullListing, call.offset, call.limit)
        /\ call.limit > 0 => Pages(call.limit, 0) = FullListing

\* the rows a listing has to return: those of the table with the value in
\* the column
Matching(column, value) == {i \in 1..Len(db) : db[i][column] = value}

\* the listing is made of all the rows of the table with the value in the
\* column, each once, newest first
AllMatching(listing, column, value) ==
    /\ Len(listing) = Cardinality(Matching(column, value))
    /\ \A i \in Matching(column, value) : \E k \in 1..Len(listing) : listing[k].id = db[i].id
    /\ NewestFirst(listing)

\* C23: get_requests_by_user and get_requests_by_vpn_ip return only rows
\* whose username, or vpn_ip, is the value asked for, and all of them when
\* the limit is at least their number (from offset 0); the count functions
\* return the number of rows with the value, 0 when no row has it; they
\* take no limit and no offset.
C23_FilteredListingAndCount ==
    /\ call.op = "get_requests_by_user" =>
          /\ \A k \in 1..Len(ret.value) : ret.value[k].username = call.username
          /\ (call.offset = 0 /\ call.limit >= Cardinality(Matching("username", call.username)))
                => AllMatching(ret.value, "username", call.username)
    /\ call.op = "get_requests_by_vpn_ip" =>
          /\ \A k \in 1..Len(ret.value) : ret.value[k].vpn_ip = call.vpn_ip
          /\ (call.offset = 0 /\ call.limit >= Cardinality(Matching("vpn_ip", call.vpn_ip)))
                => AllMatching(ret.value, "vpn_ip", call.vpn_ip)
    /\ call.op = "get_request_count" => ret.value = Len(db)
    /\ call.op = "get_user_request_count" =>
          ret.value = Cardinality(Matching("username", call.username))
    /\ call.op = "get_vpn_ip_request_count" =>
          ret.value = Cardinality(Matching("vpn_ip", call.vpn_ip))

\* two of three requests are alice's, the one between them is bob's; her
\* listing has her two, the later first
C23_Witness ==
    /\ call.op = "get_requests_by_user"
    /\ call.username = "alice"
    /\ call.offset = 0
    /\ call.limit = 2
    /\ Len(db) = 3
    /\ db[2].username = "bob"
    /\ Len(ret.value) = 2
    /\ ret.value[1].id = 3
    /\ ret.value[2].id = 1

\* C25: a POST /download whose body the request schema accepts is answered
\* 200 with a new task_id; the table has one row of that task_id, pending,
\* and one run is scheduled for it; a request that is not answered 200 has
\* left no row and no run.
C25_AcceptedPostStartsRun ==
    call.op = "download_album" =>
        IF DownloadRequestModel(call.body).exc = "none"
        THEN /\ ret.http = 200
             /\ RowCount(db, ret.task_id) = 1
             /\ RowOf(db, ret.task_id).status = "pending"
             /\ pc[ret.task_id] = "search"
        ELSE /\ db = <<>>
             /\ \A t \in RunIds : pc[t] = "idle"

====
